---- MODULE Spec2Model ----
(***************************************************************************)
(* Model of controllers/authController.js (natours): the handlers signup,  *)
(* login and logout, the middlewares protect, isLoggedIn and restrictTo,   *)
(* and the password flows forgotPassword, resetPassword and                *)
(* updatePassword, with the helpers signToken and createSendToken.         *)
(*                                                                         *)
(* One client (a browser with its jwt cookie and its mailbox) sends the    *)
(* requests; a request in flight occupies a slot of Reqs.  The slots are   *)
(* interchangeable and a new request takes the first free one.             *)
(*                                                                         *)
(* There are three specifications.  Under Spec the store has a user and    *)
(* the client sends one request at a time to every handler but signup,     *)
(* while the clock runs and the user can be deleted.  Under SpecSignup the *)
(* store starts empty and its user is the one signup creates; the client   *)
(* sends one request at a time to the handlers that issue session tokens.  *)
(* Under SpecConcurrent two requests to forgotPassword and resetPassword   *)
(* are in flight together.                                                 *)
(*                                                                         *)
(* A handler is cut into one action per store access or e-mail dispatch    *)
(* (the awaits at which the event loop can run another request): an action *)
(* is the synchronous code that leads to the access, the access, and the   *)
(* code that follows it up to the next access.  The awaits on pure         *)
(* computations (jwt.verify, bcrypt compare) read no shared state and do   *)
(* not cut a handler, so a handler with one store access (login, protect   *)
(* with the middlewares that follow it synchronously) is one action.       *)
(* jwt.verify, the validators and the mailer can fail; the store answers   *)
(* every query, except under isLoggedIn, whose catch block is there for a  *)
(* lookup that throws.                                                     *)
(*                                                                         *)
(* A finished request stays visible (pc = "done") until the client has     *)
(* taken the response, which happens before anything else moves: a         *)
(* finished request has no effect on the rest of the system.               *)
(*                                                                         *)
(* JS undefined/null of a scalar field is the empty tuple << >>, a present *)
(* value v is <<v>>; a null document is NoDoc, an absent token NoToken.    *)
(***************************************************************************)
EXTENDS Integers, Sequences, FiniteSets, TLC

-----------------------------------------------------------------------------
(* Bounds of the model *)

\* the clock runs from 0 to MaxTime (seconds)
MaxTime == 2
\* number of reset tokens createPasswordResetToken can draw
MaxResets == 2

-----------------------------------------------------------------------------
(* Program constants and configuration *)

\* process.env.JWT_EXPIRES_IN, in clock ticks
JwtExpiresIn == 2
\* process.env.JWT_COOKIE_EXPIRES_IN (days), as the lifetime of the cookie in seconds
JwtCookieExpiresIn == 7776000
\* values of process.env.NODE_ENV
NodeEnvs == {"development", "production"}
\* validity window of a reset token (userModel), in clock ticks
ResetWindow == 1

\* the ids of the store: u1 is there from the start, u2 is the id the store
\* gives the user signup creates
Users == {"u1", "u2"}
InitialUsers == {"u1"}
Reqs == {"r1", "r2"}
Passwords == {"pw1", "pw2"}
Roles == {"user", "admin"}

Undefined == << >>
Some(v) == <<v>>

EmailOf(id) == IF id = "u1" THEN "u1@x.io" ELSE "u2@x.io"
UnknownEmail == "nobody@x.io"
\* values of req.body.email ("" is a missing field)
BodyEmails == {EmailOf(u) : u \in Users} \cup {UnknownEmail, ""}
\* values of a password field of the body ("" is a missing field)
BodyPasswords == Passwords \cup {""}

-----------------------------------------------------------------------------
(* External libraries, modelled by what they do *)

\* bcrypt.hash / bcrypt.compare (userModel.correctPassword)
Bcrypt(p) == <<"bcrypt", p>>
correctPassword(candidate, userPassword) == userPassword = Bcrypt(candidate)

\* crypto.createHash('sha256').update(t).digest('hex')
Sha256(t) == <<"sha256", t>>

NoToken == [kind |-> "none", id |-> "", iat |-> 0, exp |-> 0]
\* a string that is no JWT signed with JWT_SECRET
Malformed == [kind |-> "malformed", id |-> "", iat |-> 0, exp |-> 0]
\* jwt.sign({id}, secret, {expiresIn}) at time t
JwtSign(id, t) == [kind |-> "jwt", id |-> id, iat |-> t, exp |-> t + JwtExpiresIn]

\* jwt.verify(token, secret) at time t: "ok", or the name of the error thrown
JwtVerify(token, t) ==
  IF token.kind # "jwt" THEN "JsonWebTokenError"
  ELSE IF t >= token.exp THEN "TokenExpiredError"
  ELSE "ok"

-----------------------------------------------------------------------------
(* Errors *)

NoError == [name |-> "", statusCode |-> Undefined]
\* new AppError(message, statusCode): statusCode is << >> when the argument is absent
AppError(statusCode) == [name |-> "AppError", statusCode |-> statusCode]
\* an error thrown by a library or the runtime carries no statusCode
Thrown(name) == [name |-> name, statusCode |-> Undefined]

\* the centralized error layer: the status of the response it writes for err
ErrorLayerStatus(err) ==
  IF err.statusCode # Undefined THEN err.statusCode[1]
  ELSE IF err.name \in {"JsonWebTokenError", "TokenExpiredError"} THEN 401
  ELSE 500

-----------------------------------------------------------------------------
(* User documents and the store *)

NoDoc == [_id |-> "", email |-> "", password |-> Undefined, role |-> "",
          passwordChangedAt |-> Undefined, passwordResetToken |-> Undefined,
          passwordResetExpires |-> Undefined]

NewDoc(id, pw, role) ==
  [_id |-> id, email |-> EmailOf(id), password |-> Bcrypt(pw), role |-> role,
   passwordChangedAt |-> Undefined, passwordResetToken |-> Undefined,
   passwordResetExpires |-> Undefined]

\* the schema declares password with select: false
Unselect(doc) == [doc EXCEPT !.password = Undefined]

\* userModel.changedPasswordAfter(JWTTimestamp)
changedPasswordAfter(doc, iat) ==
  /\ doc.passwordChangedAt # Undefined
  /\ iat < doc.passwordChangedAt[1]

VARIABLES
  now,        \* the clock (Date.now(), in seconds)
  users,      \* the store: user id -> document, NoDoc when there is none
  nextReset,  \* the next raw reset token crypto.randomBytes yields
  jar,        \* the client's jwt cookie
  saved,      \* the token the client received before the one in its cookie
  inbox,      \* the raw reset tokens the client received by e-mail
  spent,      \* the raw reset tokens a password was reset with
  nodeEnv,    \* process.env.NODE_ENV
  req         \* slot -> the request in flight (IdleReq when none)

vars == <<now, users, nextReset, jar, saved, inbox, spent, nodeEnv, req>>

NoAuth == [scheme |-> "", token |-> NoToken]
NoCookie == [name |-> "", value |-> NoToken, httpOnly |-> FALSE, secure |-> FALSE,
             expires |-> 0]

IdleReq ==
  [route |-> "", pc |-> "idle",
   \* the request
   authorization |-> NoAuth, cookie |-> NoToken,
   email |-> "", password |-> "", passwordConfirm |-> "", passwordCurrent |-> "",
   paramToken |-> 0, roles |-> {},
   \* locals of the handler
   token |-> NoToken, user |-> NoDoc, resetToken |-> 0,
   \* the request context
   reqUser |-> NoDoc, localsUser |-> NoDoc,
   \* what the handler did (caught: the catch block of isLoggedIn ran)
   queries |-> 0, saves |-> 0, mail |-> "none", caught |-> FALSE,
   passed |-> {}, nextCalls |-> 0, nextErr |-> NoError, reached |-> FALSE,
   \* the response
   status |-> 0, bodyToken |-> NoToken, bodyUser |-> NoDoc, setCookie |-> NoCookie]

\* User.findById(id)
findById(id) == IF id \in Users THEN users[id] ELSE NoDoc

\* User.findOne({email})
findOneByEmail(email) ==
  IF \E u \in Users : users[u]._id # "" /\ users[u].email = email
  THEN users[CHOOSE u \in Users : users[u]._id # "" /\ users[u].email = email]
  ELSE NoDoc

\* the query of resetPassword without its condition on passwordResetExpires
findOneByResetToken_NoExpiry(hashedToken, t) ==
  LET match(u) == /\ users[u]._id # ""
                  /\ users[u].passwordResetToken = Some(hashedToken)
  IN IF \E u \in Users : match(u) THEN users[CHOOSE u \in Users : match(u)] ELSE NoDoc

\* User.findOne({passwordResetToken: hashedToken, passwordResetExpires: {$gt: t}})
findOneByResetToken(hashedToken, t) ==
  LET match(u) == /\ users[u]._id # ""
                  /\ users[u].passwordResetToken = Some(hashedToken)
                  /\ users[u].passwordResetExpires # Undefined
                  /\ users[u].passwordResetExpires[1] > t
  IN IF \E u \in Users : match(u) THEN users[CHOOSE u \in Users : match(u)] ELSE NoDoc

-----------------------------------------------------------------------------
(* Helpers shared by the handlers *)

\* no response is waiting to be taken
Quiet == \A c \in Reqs : req[c].pc # "done"

\* a new request can take slot c: it is the first free slot
Free(c) ==
  /\ Quiet
  /\ req[c].pc = "idle"
  /\ c = "r2" => req["r1"].pc # "idle"

\* next(err): the error goes to the centralized error layer, which responds
NextErr(q, err) ==
  [q EXCEPT !.pc = "done", !.nextCalls = @ + 1, !.nextErr = err,
            !.status = ErrorLayerStatus(err)]

\* next() of the middleware mw
Next(q, mw) == [q EXCEPT !.nextCalls = @ + 1, !.passed = @ \cup {mw}]

\* the handler a route ends with is reached
Reach(q) == [q EXCEPT !.pc = "done", !.reached = TRUE]

signToken(id) == JwtSign(id, now)

\* createSendToken that sets the secure flag whatever the environment
createSendToken_SecureAlways(q, user, statusCode) ==
  LET token == signToken(user._id)
      cookieOptions == [name |-> "jwt", value |-> token, httpOnly |-> TRUE,
                        secure |-> TRUE, expires |-> now + JwtCookieExpiresIn]
  IN [q EXCEPT !.pc = "done", !.status = statusCode, !.setCookie = cookieOptions,
               !.bodyToken = token, !.bodyUser = [user EXCEPT !.password = Undefined]]

\* createSendToken without user.password = undefined
createSendToken_KeepsPassword(q, user, statusCode) ==
  LET token == signToken(user._id)
      cookieOptions == [name |-> "jwt", value |-> token, httpOnly |-> TRUE,
                        secure |-> nodeEnv = "production",
                        expires |-> now + JwtCookieExpiresIn]
  IN [q EXCEPT !.pc = "done", !.status = statusCode, !.setCookie = cookieOptions,
               !.bodyToken = token, !.bodyUser = user]

createSendToken(q, user, statusCode) ==
  LET token == signToken(user._id)
      cookieOptions == [name |-> "jwt", value |-> token, httpOnly |-> TRUE,
                        secure |-> nodeEnv = "production",
                        expires |-> now + JwtCookieExpiresIn]
  IN [q EXCEPT !.pc = "done", !.status = statusCode, !.setCookie = cookieOptions,
               !.bodyToken = token, !.bodyUser = [user EXCEPT !.password = Undefined]]

\* the request in slot c becomes q; a cookie the response sets replaces the
\* client's cookie, and the client keeps the token it had there
Deliver(c, q) ==
  /\ req' = [req EXCEPT ![c] = q]
  /\ jar' = IF q.setCookie.name = "jwt" THEN q.setCookie.value ELSE jar
  /\ saved' = IF q.setCookie.name = "jwt" /\ jar.kind = "jwt" /\ jar # q.setCookie.value
              THEN jar ELSE saved

\* the tokens the client can put into an Authorization header, and its cookies
KnownTokens == {jar, saved, Malformed, NoToken}
AuthHeaders ==
  {NoAuth} \cup {[scheme |-> "Bearer", token |-> t] : t \in KnownTokens}
           \cup {[scheme |-> "Basic", token |-> Malformed]}
Cookies == {jar, NoToken}

\* user.save(): the modified paths of doc are written to its document
Save(doc, paths) ==
  [users EXCEPT ![doc._id] = [f \in DOMAIN @ |-> IF f \in paths THEN doc[f] ELSE @[f]]]

\* the pre-save hooks of userModel on a modified password: it is hashed and
\* passwordChangedAt is set
PreSavePassword(doc, plain) ==
  [doc EXCEPT !.password = Bcrypt(plain), !.passwordChangedAt = Some(now)]

\* the validators of userModel that save() runs: passwordConfirm equals password
Validates(q) == q.password = q.passwordConfirm

-----------------------------------------------------------------------------
(* restrictTo *)

\* restrictTo that compares with the first role only ("user" before "admin")
RestrictAllowed_FirstRoleOnly(roles, user) ==
  roles # {} /\ user.role = (IF "user" \in roles THEN "user" ELSE "admin")

\* roles.includes(req.user.role)
RestrictAllowed(roles, user) == user.role \in roles

\* the middleware restrictTo(...roles) returns, on the request q
RestrictTo(q, roles) ==
  IF ~RestrictAllowed(roles, q.reqUser)
  THEN NextErr([q EXCEPT !.roles = roles], AppError(Some(403)))
  ELSE Reach(Next([q EXCEPT !.roles = roles], "restrictTo"))

-----------------------------------------------------------------------------
(* protect *)

\* the routes behind protect: a plain handler, restrictTo(...) and a handler,
\* updatePassword
ProtectedRoutes == {"protected", "restricted", "updatePassword"}

\* step 1 falling back to the cookie when the Bearer header has no token
ProtectToken_CookieFallback(authorization, cookie) ==
  IF authorization.scheme = "Bearer" /\ authorization.token # NoToken
  THEN authorization.token
  ELSE IF cookie # NoToken THEN cookie
  ELSE NoToken

\* step 1: the token of the request
ProtectToken(authorization, cookie) ==
  IF authorization.scheme = "Bearer" THEN authorization.token
  ELSE IF cookie # NoToken THEN cookie
  ELSE NoToken

\* ProtectGrant without step 4
ProtectGrant_NoChangedCheck(q, currentUser, route, roles) ==
  IF currentUser = NoDoc THEN NextErr(q, AppError(Some(401)))
  ELSE LET p == Next([q EXCEPT !.reqUser = currentUser, !.localsUser = currentUser],
                     "protect")
       IN CASE route = "restricted" -> RestrictTo([p EXCEPT !.route = route], roles)
            [] route = "updatePassword" ->
                 [p EXCEPT !.route = route, !.pc = "update_findById"]
            [] OTHER -> Reach(p)

\* ProtectGrant that leaves res.locals.user unset
ProtectGrant_NoLocals(q, currentUser, route, roles) ==
  IF currentUser = NoDoc THEN NextErr(q, AppError(Some(401)))
  ELSE IF changedPasswordAfter(currentUser, q.token.iat) THEN NextErr(q, AppError(Some(401)))
  ELSE LET p == Next([q EXCEPT !.reqUser = currentUser], "protect")
       IN CASE route = "restricted" -> RestrictTo([p EXCEPT !.route = route], roles)
            [] route = "updatePassword" ->
                 [p EXCEPT !.route = route, !.pc = "update_findById"]
            [] OTHER -> Reach(p)

\* steps 3 and 4, given the result of findById; then the rest of the route,
\* which protect does not read: a plain handler, restrictTo(...roles) and a
\* handler, or updatePassword
ProtectGrant(q, currentUser, route, roles) ==
  IF currentUser = NoDoc THEN NextErr(q, AppError(Some(401)))
  ELSE IF changedPasswordAfter(currentUser, q.token.iat) THEN NextErr(q, AppError(Some(401)))
  ELSE LET p == Next([q EXCEPT !.reqUser = currentUser, !.localsUser = currentUser],
                     "protect")
       IN CASE route = "restricted" -> RestrictTo([p EXCEPT !.route = route], roles)
            [] route = "updatePassword" ->
                 [p EXCEPT !.route = route, !.pc = "update_findById"]
            [] OTHER -> Reach(p)

\* ProtectRun that passes a request on when its token does not verify
ProtectRun_Lenient(q, route, roles) ==
  IF q.token = NoToken THEN NextErr(q, AppError(Some(401)))
  ELSE IF JwtVerify(q.token, now) # "ok" THEN Reach(Next(q, "protect"))
  ELSE LET currentUser == Unselect(findById(q.token.id))
       IN ProtectGrant([q EXCEPT !.queries = @ + 1, !.user = currentUser], currentUser,
                       route, roles)

\* the whole middleware on the request q
ProtectRun(q, route, roles) ==
  IF q.token = NoToken THEN NextErr(q, AppError(Some(401)))
  ELSE IF JwtVerify(q.token, now) # "ok" THEN NextErr(q, Thrown(JwtVerify(q.token, now)))
  ELSE LET currentUser == Unselect(findById(q.token.id))
       IN ProtectGrant([q EXCEPT !.queries = @ + 1, !.user = currentUser], currentUser,
                       route, roles)

Protect(c) ==
  /\ Free(c)
  /\ \E route \in ProtectedRoutes, authorization \in AuthHeaders, cookie \in Cookies,
        roles \in SUBSET Roles :
       /\ route # "restricted" => roles = {}
       /\ LET q == [IdleReq EXCEPT !.route = "protected", !.authorization = authorization,
                                   !.cookie = cookie,
                                   !.token = ProtectToken(authorization, cookie)]
          IN Deliver(c, ProtectRun(q, route, roles))
  /\ UNCHANGED <<now, users, nextReset, inbox, spent, nodeEnv>>

-----------------------------------------------------------------------------
(* login *)

\* LoginCheck that does not compare the password
LoginCheck_NoPassword(q, user) ==
  IF user = NoDoc
  THEN NextErr(q, AppError(Some(401)))
  ELSE createSendToken(q, user, 200)

\* step 2 and 3, given the result of findOne
LoginCheck(q, user) ==
  IF user = NoDoc \/ ~correctPassword(q.password, user.password)
  THEN NextErr(q, AppError(Some(401)))
  ELSE createSendToken(q, user, 200)

LoginRun(q) ==
  IF q.email = "" \/ q.password = ""
  THEN NextErr(q, AppError(Some(400)))
  ELSE LET user == findOneByEmail(q.email)
       IN LoginCheck([q EXCEPT !.queries = @ + 1, !.user = user], user)

Login(c) ==
  /\ Free(c)
  /\ \E email \in BodyEmails, password \in BodyPasswords :
       Deliver(c, LoginRun([IdleReq EXCEPT !.route = "login", !.email = email,
                                           !.password = password]))
  /\ UNCHANGED <<now, users, nextReset, inbox, spent, nodeEnv>>

-----------------------------------------------------------------------------
(* signup *)

\* values of req.body.email and req.body.role of a signup: the address of the
\* person who signs up, and any role
SignupEmails == {EmailOf(u) : u \in Users \ InitialUsers}
BodyRoles == Roles

\* the schema declares email unique: a document has this email already
EmailTaken(email) == findOneByEmail(email) # NoDoc

\* the ids the store has left for new documents
FreshIds == {u \in Users \ InitialUsers : users[u] = NoDoc}

\* User.create(body) for a body whose passwords agree and whose email no
\* document has: the document the store creates, with the id it gives it
CreateUser(email, password, role) ==
  [NewDoc(CHOOSE u \in FreshIds : TRUE, password, role) EXCEPT !.email = email]

\* User.create and what follows it up to the e-mail
SignupCreate(c) ==
  /\ Free(c)
  /\ \E email \in SignupEmails, password \in Passwords, passwordConfirm \in Passwords,
        role \in BodyRoles :
       LET q == [IdleReq EXCEPT !.route = "signup", !.email = email, !.password = password,
                                !.passwordConfirm = passwordConfirm]
       IN IF ~Validates(q)
          THEN Deliver(c, NextErr(q, Thrown("ValidationError"))) /\ UNCHANGED users
          ELSE IF EmailTaken(email)
          THEN Deliver(c, NextErr(q, Thrown("MongoError"))) /\ UNCHANGED users
          ELSE /\ FreshIds # {}
               /\ LET newUser == CreateUser(email, password, role)
                  IN /\ users' = [users EXCEPT ![newUser._id] = newUser]
                     /\ Deliver(c, [q EXCEPT !.pc = "signup_send", !.saves = 1,
                                             !.user = newUser])
  /\ UNCHANGED <<now, nextReset, inbox, spent, nodeEnv>>

\* SignupMail that issues the session although the e-mail failed
SignupMail_IgnoreFailure(q, sent) ==
  createSendToken([q EXCEPT !.mail = IF sent THEN "sent" ELSE "failed"], q.user, 201)

\* sendWelcome() succeeded or threw; createSendToken follows its success
SignupMail(q, sent) ==
  IF sent
  THEN createSendToken([q EXCEPT !.mail = "sent"], q.user, 201)
  ELSE NextErr([q EXCEPT !.mail = "failed"], Thrown("Error"))

SignupSend(c) ==
  /\ Quiet
  /\ req[c].pc = "signup_send"
  /\ \E sent \in BOOLEAN : Deliver(c, SignupMail(req[c], sent))
  /\ UNCHANGED <<now, users, nextReset, inbox, spent, nodeEnv>>

-----------------------------------------------------------------------------
(* logout *)

\* the value 'log-out-token-:D' of the cookie logout sets: a string that is no JWT
LogoutPlaceholder == [kind |-> "logout", id |-> "", iat |-> 0, exp |-> 0]
\* lifetime of that cookie, in seconds
LogoutCookieExpiresIn == 10

\* a logout that leaves the value of the cookie as it is
LogoutCookie_KeepsSession ==
  [name |-> "jwt", value |-> jar, httpOnly |-> TRUE, secure |-> FALSE,
   expires |-> now + LogoutCookieExpiresIn]

\* res.cookie('jwt', 'log-out-token-:D', {expires, httpOnly})
LogoutCookie ==
  [name |-> "jwt", value |-> LogoutPlaceholder, httpOnly |-> TRUE, secure |-> FALSE,
   expires |-> now + LogoutCookieExpiresIn]

Logout(c) ==
  /\ Free(c)
  /\ Deliver(c, [IdleReq EXCEPT !.route = "logout", !.pc = "done", !.status = 200,
                                !.setCookie = LogoutCookie])
  /\ UNCHANGED <<now, users, nextReset, inbox, spent, nodeEnv>>

-----------------------------------------------------------------------------
(* isLoggedIn *)

\* the jwt cookies a request for a rendered page can carry
ViewCookies == Cookies \cup {saved, Malformed}

\* the rendered page behind isLoggedIn is reached
IsLoggedInNext(q) == Reach(Next(q, "isLoggedIn"))

\* isLoggedIn with a catch block that forwards the error
IsLoggedInRun_Rethrow(q, answered) ==
  IF q.cookie = NoToken THEN IsLoggedInNext(q)
  ELSE IF JwtVerify(q.cookie, now) # "ok"
  THEN NextErr([q EXCEPT !.caught = TRUE], Thrown(JwtVerify(q.cookie, now)))
  ELSE IF ~answered
  THEN NextErr([q EXCEPT !.queries = @ + 1, !.caught = TRUE], Thrown("MongoError"))
  ELSE LET currentUser == Unselect(findById(q.cookie.id))
           p == [q EXCEPT !.queries = @ + 1, !.user = currentUser]
       IN IF currentUser = NoDoc THEN IsLoggedInNext(p)
          ELSE IF changedPasswordAfter(currentUser, q.cookie.iat) THEN IsLoggedInNext(p)
          ELSE IsLoggedInNext([p EXCEPT !.localsUser = currentUser])

\* the whole middleware on the request q; answered: findById answered (it threw
\* otherwise)
IsLoggedInRun(q, answered) ==
  IF q.cookie = NoToken THEN IsLoggedInNext(q)
  ELSE IF JwtVerify(q.cookie, now) # "ok"
  THEN IsLoggedInNext([q EXCEPT !.caught = TRUE])
  ELSE IF ~answered
  THEN IsLoggedInNext([q EXCEPT !.queries = @ + 1, !.caught = TRUE])
  ELSE LET currentUser == Unselect(findById(q.cookie.id))
           p == [q EXCEPT !.queries = @ + 1, !.user = currentUser]
       IN IF currentUser = NoDoc THEN IsLoggedInNext(p)
          ELSE IF changedPasswordAfter(currentUser, q.cookie.iat) THEN IsLoggedInNext(p)
          ELSE IsLoggedInNext([p EXCEPT !.localsUser = currentUser])

IsLoggedIn(c) ==
  /\ Free(c)
  /\ \E cookie \in ViewCookies, answered \in BOOLEAN :
       Deliver(c, IsLoggedInRun([IdleReq EXCEPT !.route = "isLoggedIn", !.cookie = cookie],
                                answered))
  /\ UNCHANGED <<now, users, nextReset, inbox, spent, nodeEnv>>

-----------------------------------------------------------------------------
(* updatePassword, behind protect *)

\* UpdateCheck that does not compare passwordCurrent
UpdateCheck_NoCompare(q, user) ==
  IF user = NoDoc THEN NextErr(q, Thrown("TypeError"))
  ELSE [q EXCEPT !.pc = "update_save"]

\* step 2, given the result of findById
UpdateCheck(q, user) ==
  IF user = NoDoc THEN NextErr(q, Thrown("TypeError"))
  ELSE IF ~correctPassword(q.passwordCurrent, user.password)
  THEN NextErr(q, AppError(Some(401)))
  ELSE [q EXCEPT !.pc = "update_save"]

\* findById().select('+password') and the check of passwordCurrent
UpdateFind(c) ==
  /\ Quiet
  /\ req[c].pc = "update_findById"
  /\ \E passwordCurrent \in Passwords :
       LET user == findById(req[c].reqUser._id)
           \* of the request, updatePassword reads req.user._id and the body
           q == [IdleReq EXCEPT !.route = "updatePassword", !.reqUser = req[c].reqUser,
                                !.passed = req[c].passed, !.nextCalls = req[c].nextCalls,
                                !.passwordCurrent = passwordCurrent,
                                !.queries = req[c].queries + 1, !.user = user]
       IN Deliver(c, UpdateCheck(q, user))
  /\ UNCHANGED <<now, users, nextReset, inbox, spent, nodeEnv>>

\* password and passwordConfirm of the body are assigned, then user.save() and
\* createSendToken
UpdateSave(c) ==
  /\ Quiet
  /\ req[c].pc = "update_save"
  /\ \E password \in Passwords, passwordConfirm \in Passwords :
       LET q == [req[c] EXCEPT !.password = password, !.passwordConfirm = passwordConfirm]
           user == PreSavePassword(q.user, q.password)
       IN IF ~Validates(q)
          THEN Deliver(c, NextErr(q, Thrown("ValidationError"))) /\ UNCHANGED users
          ELSE /\ users' = Save(user, {"password", "passwordChangedAt"})
               /\ Deliver(c, createSendToken([q EXCEPT !.saves = @ + 1, !.user = user],
                                             user, 200))
  /\ UNCHANGED <<now, nextReset, inbox, spent, nodeEnv>>

-----------------------------------------------------------------------------
(* forgotPassword *)

\* userModel.createPasswordResetToken() with the random token raw
createPasswordResetToken(doc, raw) ==
  [doc EXCEPT !.passwordResetToken = Some(Sha256(raw)),
              !.passwordResetExpires = Some(now + ResetWindow)]

\* the error the catch block hands to next
ForgotSendError == AppError(Undefined)

\* ForgotLookup that answers an unknown email with 400
ForgotLookup_WrongStatus(q, user, raw) ==
  IF user = NoDoc
  THEN NextErr(q, AppError(Some(400)))
  ELSE [q EXCEPT !.pc = "forgot_save", !.resetToken = raw,
                 !.user = createPasswordResetToken(user, raw)]

\* steps 1 and 2, given the result of findOne and the random token raw
ForgotLookup(q, user, raw) ==
  IF user = NoDoc
  THEN NextErr(q, AppError(Some(404)))
  ELSE [q EXCEPT !.pc = "forgot_save", !.resetToken = raw,
                 !.user = createPasswordResetToken(user, raw)]

\* a catch block that clears passwordResetExpires only
ForgotCatch_ExpiresOnly(user) == [user EXCEPT !.passwordResetExpires = Undefined]

\* the catch block clears the reset fields of the document in memory
ForgotCatch(user) ==
  [user EXCEPT !.passwordResetToken = Undefined, !.passwordResetExpires = Undefined]

\* findOne({email}) and createPasswordResetToken, for a body with an email
ForgotFind(c) ==
  /\ Free(c)
  /\ \E email \in BodyEmails \ {""} :
       LET user == Unselect(findOneByEmail(email))
           q == [IdleReq EXCEPT !.route = "forgotPassword", !.email = email,
                                !.queries = 1, !.user = user]
           r == ForgotLookup(q, user, nextReset)
       IN /\ r.resetToken # 0 => nextReset <= MaxResets
          /\ Deliver(c, r)
          /\ nextReset' = IF r.resetToken # 0 THEN nextReset + 1 ELSE nextReset
  /\ UNCHANGED <<now, users, inbox, spent, nodeEnv>>

\* user.save({validateBeforeSave: false})
ForgotSave(c) ==
  /\ Quiet
  /\ req[c].pc = "forgot_save"
  /\ users' = Save(req[c].user, {"passwordResetToken", "passwordResetExpires"})
  /\ Deliver(c, [req[c] EXCEPT !.pc = "forgot_send", !.saves = @ + 1])
  /\ UNCHANGED <<now, nextReset, inbox, spent, nodeEnv>>

\* sendPasswordReset(): it succeeds or throws
ForgotSend(c) ==
  /\ Quiet
  /\ req[c].pc = "forgot_send"
  /\ \E sent \in BOOLEAN :
       /\ Deliver(c, IF sent
                     THEN [req[c] EXCEPT !.pc = "done", !.mail = "sent", !.status = 200]
                     ELSE [req[c] EXCEPT !.pc = "forgot_rollback", !.mail = "failed",
                                         !.user = ForgotCatch(@)])
       /\ inbox' = IF sent THEN inbox \cup {req[c].resetToken} ELSE inbox
  /\ UNCHANGED <<now, users, nextReset, spent, nodeEnv>>

\* the catch block: save() and next
ForgotRollback(c) ==
  /\ Quiet
  /\ req[c].pc = "forgot_rollback"
  /\ users' = Save(req[c].user, {"passwordResetToken", "passwordResetExpires"})
  /\ Deliver(c, NextErr([req[c] EXCEPT !.saves = @ + 1], ForgotSendError))
  /\ UNCHANGED <<now, nextReset, inbox, spent, nodeEnv>>

-----------------------------------------------------------------------------
(* resetPassword *)

\* values of req.params.token: every token drawn or not
ParamTokens == 1 .. MaxResets + 1

\* ResetAssign that leaves the reset fields of the document as they are
ResetAssign_KeepToken(user) == user

\* the reset fields of the document in memory are cleared (the password fields
\* are assigned with them, from the body read at the save)
ResetAssign(user) ==
  [user EXCEPT !.passwordResetToken = Undefined, !.passwordResetExpires = Undefined]

\* findOne by hashed token and expiry
ResetFind(c) ==
  /\ Free(c)
  /\ \E token \in ParamTokens :
       LET user == Unselect(findOneByResetToken(Sha256(token), now))
           q == [IdleReq EXCEPT !.route = "resetPassword", !.paramToken = token,
                                !.queries = 1, !.user = user]
       IN Deliver(c, IF user = NoDoc
                     THEN NextErr(q, AppError(Some(400)))
                     ELSE [q EXCEPT !.pc = "reset_save", !.user = ResetAssign(user)])
  /\ UNCHANGED <<now, users, nextReset, inbox, spent, nodeEnv>>

\* password and passwordConfirm of the body are assigned, then user.save() and
\* createSendToken
ResetSave(c) ==
  /\ Quiet
  /\ req[c].pc = "reset_save"
  /\ \E password \in Passwords, passwordConfirm \in Passwords :
       LET q == [req[c] EXCEPT !.password = password, !.passwordConfirm = passwordConfirm]
           user == PreSavePassword(q.user, q.password)
       IN IF ~Validates(q)
          THEN /\ Deliver(c, NextErr(q, Thrown("ValidationError")))
               /\ UNCHANGED <<users, spent>>
          ELSE /\ users' = Save(user, {"password", "passwordChangedAt",
                                       "passwordResetToken", "passwordResetExpires"})
               /\ spent' = spent \cup {q.paramToken}
               /\ Deliver(c, createSendToken([q EXCEPT !.saves = @ + 1, !.user = user],
                                             user, 200))
  /\ UNCHANGED <<now, nextReset, inbox, nodeEnv>>

-----------------------------------------------------------------------------
(* The environment *)

Tick ==
  /\ Quiet
  /\ now < MaxTime
  /\ now' = now + 1
  /\ UNCHANGED <<users, nextReset, jar, saved, inbox, spent, nodeEnv, req>>

\* pcs at which a request holds a document it is going to save
SavePcs == {"update_save", "forgot_save", "forgot_send", "forgot_rollback", "reset_save"}

\* a user of the start is deleted (userController), while no request is about
\* to save it; the store does not give the id of a deleted user to a new one
DeleteUser(u) ==
  /\ Quiet
  /\ users[u] # NoDoc
  /\ \A c \in Reqs : req[c].pc \in SavePcs => req[c].user._id # u
  /\ users' = [users EXCEPT ![u] = NoDoc]
  /\ UNCHANGED <<now, nextReset, jar, saved, inbox, spent, nodeEnv, req>>

\* the client has its response; its next request starts from a fresh context
Recycle(c) ==
  /\ req[c].pc = "done"
  /\ req' = [req EXCEPT ![c] = IdleReq]
  /\ UNCHANGED <<now, users, nextReset, jar, saved, inbox, spent, nodeEnv>>

\* a deployment in development that has a user
Init ==
  /\ now = 0
  /\ \E role \in Roles :
       users = [u \in Users |-> IF u \in InitialUsers THEN NewDoc(u, "pw1", role) ELSE NoDoc]
  /\ nextReset = 1
  /\ jar = NoToken
  /\ saved = NoToken
  /\ inbox = {}
  /\ spent = {}
  /\ nodeEnv = "development"
  /\ req = [c \in Reqs |-> IdleReq]

\* the slot the client uses when it sends one request at a time
Sequential == {"r1"}

Step ==
  \/ Tick
  \/ \E u \in InitialUsers : DeleteUser(u)
  \/ \E c \in Sequential :
       \/ Protect(c)
       \/ IsLoggedIn(c)
       \/ Login(c)
       \/ Logout(c)
       \/ UpdateFind(c) \/ UpdateSave(c)
       \/ ForgotFind(c) \/ ForgotSave(c) \/ ForgotSend(c) \/ ForgotRollback(c)
       \/ ResetFind(c) \/ ResetSave(c)
       \/ Recycle(c)

Spec == Init /\ [][Step]_vars

\* a deployment, in development or in production, whose store is empty: its
\* user is the one signup creates
InitFresh ==
  /\ now = 0
  /\ users = [u \in Users |-> NoDoc]
  /\ nextReset = 1
  /\ jar = NoToken
  /\ saved = NoToken
  /\ inbox = {}
  /\ spent = {}
  /\ nodeEnv \in NodeEnvs
  /\ req = [c \in Reqs |-> IdleReq]

\* the handlers that create a user and issue session tokens
StepSignup ==
  \/ Tick
  \/ \E c \in Sequential :
       \/ SignupCreate(c) \/ SignupSend(c)
       \/ Login(c)
       \/ Protect(c)
       \/ UpdateFind(c) \/ UpdateSave(c)
       \/ ForgotFind(c) \/ ForgotSave(c) \/ ForgotSend(c) \/ ForgotRollback(c)
       \/ ResetFind(c) \/ ResetSave(c)
       \/ Recycle(c)

SpecSignup == InitFresh /\ [][StepSignup]_vars

\* the password-reset handlers with two requests in flight: between two
\* actions of one request the event loop can run the actions of the other
StepConcurrent ==
  \/ Tick
  \/ \E c \in Reqs :
       \/ ForgotFind(c) \/ ForgotSave(c) \/ ForgotSend(c) \/ ForgotRollback(c)
       \/ ResetFind(c) \/ ResetSave(c)
       \/ Recycle(c)

SpecConcurrent == Init /\ [][StepConcurrent]_vars

-----------------------------------------------------------------------------
(* Properties of protect *)

\* the token protect takes from the request in q
TokenOf(q) == ProtectToken(q.authorization, q.cookie)

\* a step in which protect runs on the request of slot c
ProtectStep(c) ==
  /\ req[c].pc = "idle"
  /\ req'[c].pc # "idle"
  /\ req'[c].route \in ProtectedRoutes

\* protect called next() on q: the token of the request verified, its user was
\* in the store and had not changed the password since, and that user is
\* req.user and res.locals.user
ProtectPassedRight(q) ==
  LET tok == TokenOf(q)
      u == findById(tok.id)
  IN /\ tok # NoToken
     /\ JwtVerify(tok, now) = "ok"
     /\ u # NoDoc
     /\ ~changedPasswordAfter(u, tok.iat)
     /\ q.reqUser = Unselect(u)
     /\ q.localsUser = Unselect(u)

\* C1 as stated: protect passes a request on only as ProtectPassedRight says,
\* and in every other outcome req.user is unset and next receives an error
\* with status 401.
C1_Original ==
  [][\A c \in Reqs : ProtectStep(c) =>
       IF "protect" \in req'[c].passed
       THEN ProtectPassedRight(req'[c])
       ELSE /\ req'[c].reqUser = NoDoc
            /\ req'[c].nextErr.statusCode = Some(401)]_vars

\* C1, amended: protect passes a request on only as ProtectPassedRight says; in
\* every other outcome req.user is unset and next receives an error, which is
\* an AppError with status 401 when the token is missing, the user is gone or
\* the password was changed, and the error jwt.verify threw, which carries no
\* status code, when the token does not verify.
C1_ProtectContract ==
  [][\A c \in Reqs : ProtectStep(c) =>
       IF "protect" \in req'[c].passed
       THEN ProtectPassedRight(req'[c])
       ELSE /\ req'[c].reqUser = NoDoc
            /\ req'[c].localsUser = NoDoc
            /\ req'[c].nextCalls = 1
            /\ IF TokenOf(req'[c]) # NoToken /\ JwtVerify(TokenOf(req'[c]), now) # "ok"
               THEN req'[c].nextErr = Thrown(JwtVerify(TokenOf(req'[c]), now))
               ELSE req'[c].nextErr = AppError(Some(401))]_vars

\* protect passed a request of the stored user on to a plain handler
C1_Witness ==
  \E c \in Reqs :
    /\ req[c].pc = "done" /\ req[c].route = "protected"
    /\ "protect" \in req[c].passed /\ req[c].reached
    /\ req[c].reqUser = Unselect(users[req[c].token.id])

\* the request in q carries no token
NoTokenCarried(q) ==
  /\ q.authorization.scheme # "Bearer" \/ q.authorization.token = NoToken
  /\ q.cookie = NoToken

\* protect has ended in slot c and nothing has moved since
ProtectEnded(c) == req[c].pc = "done" /\ req[c].route \in {"protected", "restricted"}

ChangedSinceIssued(c) ==
  LET tok == TokenOf(req[c])
  IN /\ ProtectEnded(c)
     /\ tok # NoToken /\ JwtVerify(tok, now) = "ok"
     /\ findById(tok.id) # NoDoc
     /\ changedPasswordAfter(findById(tok.id), tok.iat)

\* C3: a token that verifies, of an existing user whose password was changed
\* after the token was issued, is rejected with 401 and no user is attached.
C3_ChangedPasswordRejected ==
  \A c \in Reqs :
    ChangedSinceIssued(c)
    => /\ req[c].nextErr = AppError(Some(401)) /\ req[c].status = 401
       /\ req[c].reqUser = NoDoc /\ req[c].localsUser = NoDoc
       /\ req[c].passed = {} /\ ~req[c].reached

\* such a token was presented and rejected
C3_Witness ==
  \E c \in Reqs : ChangedSinceIssued(c) /\ req[c].status = 401

-----------------------------------------------------------------------------
(* Properties of login and restrictTo *)

\* the response in q carries no session token and sets no cookie
NoSession(q) == q.bodyToken = NoToken /\ q.setCookie = NoCookie

\* a step in which login runs in slot c
LoginStep(c) == req[c].pc = "idle" /\ req'[c].route = "login"

\* the users of the store with the email and the password of the body of q
Credentialed(q) ==
  {u \in Users : /\ users[u]._id # ""
                 /\ users[u].email = q.email
                 /\ users[u].password = Bcrypt(q.password)}

\* C4: login answers 400 without a query when email or password is missing,
\* else 401 without token or cookie when no user has that email and password,
\* else 200 with a session token; it never changes the store.
C4_LoginOutcome ==
  [][\A c \in Reqs : LoginStep(c) =>
       /\ users' = users
       /\ req'[c].pc = "done"
       /\ IF req'[c].email = "" \/ req'[c].password = ""
          THEN /\ req'[c].status = 400 /\ req'[c].queries = 0
               /\ NoSession(req'[c]) /\ jar' = jar
          ELSE IF Credentialed(req'[c]) = {}
          THEN /\ req'[c].status = 401
               /\ NoSession(req'[c]) /\ jar' = jar
          ELSE /\ req'[c].status = 200
               /\ req'[c].bodyToken.kind = "jwt"
               /\ req'[c].bodyToken.id \in Credentialed(req'[c])
               /\ req'[c].bodyToken.iat = now
               /\ req'[c].setCookie.value = req'[c].bodyToken]_vars

\* a login with a wrong password was answered 401
C4_Witness ==
  \E c \in Reqs :
    /\ req[c].pc = "done" /\ req[c].route = "login" /\ req[c].status = 401
    /\ \E u \in Users : /\ users[u].email = req[c].email
                        /\ req[c].password # ""
                        /\ users[u].password # Bcrypt(req[c].password)

\* C5: behind protect, restrictTo(R) passes the request on without an error
\* exactly when the role of req.user is in R; otherwise next receives an error
\* with status 403 and the handler is not reached.
C5_RestrictTo ==
  \A c \in Reqs :
    (req[c].pc = "done" /\ req[c].route = "restricted")
    => /\ req[c].reqUser # NoDoc
       /\ req[c].reqUser.role = users[req[c].reqUser._id].role
       /\ IF req[c].reqUser.role \in req[c].roles
          THEN /\ req[c].reached /\ req[c].nextErr = NoError
               /\ req[c].passed = {"protect", "restrictTo"}
          ELSE /\ ~req[c].reached /\ req[c].nextErr = AppError(Some(403))
               /\ req[c].status = 403
               /\ req[c].passed = {"protect"}

\* restrictTo('admin', 'user') let a request of an admin through
C5_Witness ==
  \E c \in Reqs :
    /\ req[c].pc = "done" /\ req[c].route = "restricted"
    /\ req[c].roles = {"admin", "user"} /\ req[c].reqUser.role = "admin"
    /\ req[c].reached

-----------------------------------------------------------------------------
(* Properties of the password flows *)

\* a step in which resetPassword looks its user up in slot c
ResetStep(c) == req[c].pc = "idle" /\ req'[c].route = "resetPassword"

\* no user stores the hash of the raw token t with an expiry later than now
NoLiveToken(t) ==
  \A u \in Users :
    \/ users[u]._id = ""
    \/ users[u].passwordResetToken # Some(Sha256(t))
    \/ users[u].passwordResetExpires = Undefined
    \/ users[u].passwordResetExpires[1] <= now

\* C6: resetPassword with a token that is expired, or that no user stores, is
\* answered 400, issues no session token and leaves the store unchanged.
C6_ExpiredResetToken ==
  [][\A c \in Reqs : (ResetStep(c) /\ NoLiveToken(req'[c].paramToken)) =>
       /\ req'[c].pc = "done"
       /\ req'[c].nextErr = AppError(Some(400)) /\ req'[c].status = 400
       /\ NoSession(req'[c]) /\ jar' = jar
       /\ req'[c].saves = 0
       /\ users' = users]_vars

\* a stored token past its expiry was presented and answered 400
C6_Witness ==
  \E c \in Reqs :
    /\ req[c].pc = "done" /\ req[c].route = "resetPassword" /\ req[c].status = 400
    /\ \E u \in Users :
         /\ users[u].passwordResetToken = Some(Sha256(req[c].paramToken))
         /\ users[u].passwordResetExpires[1] <= now

\* a step in which updatePassword looks its user up in slot c
UpdateStep(c) == req[c].pc = "update_findById" /\ req'[c].pc # "update_findById"

\* C7: updatePassword with a passwordCurrent that does not match the stored
\* password is answered 401, issues no session token or cookie and saves
\* nothing: the store is unchanged.
C7_WrongCurrentPassword ==
  [][\A c \in Reqs :
       ( /\ UpdateStep(c)
         /\ findById(req[c].reqUser._id) # NoDoc
         /\ findById(req[c].reqUser._id).password # Bcrypt(req'[c].passwordCurrent) )
       => /\ req'[c].pc = "done"
          /\ req'[c].nextErr = AppError(Some(401)) /\ req'[c].status = 401
          /\ NoSession(req'[c]) /\ jar' = jar
          /\ req'[c].saves = 0
          /\ users' = users]_vars

\* an updatePassword with a wrong passwordCurrent was answered 401
C7_Witness ==
  \E c \in Reqs :
    /\ req[c].pc = "done" /\ req[c].route = "updatePassword" /\ req[c].status = 401
    /\ users[req[c].reqUser._id]._id # ""
    /\ users[req[c].reqUser._id].password # Bcrypt(req[c].passwordCurrent)

\* a step in which forgotPassword looks its user up in slot c
ForgotStep(c) == req[c].pc = "idle" /\ req'[c].route = "forgotPassword"

\* C8: forgotPassword for an email no user has is answered 404; no reset token
\* is drawn, no document is saved or changed and no e-mail is sent.
C8_UnknownEmail ==
  [][\A c \in Reqs :
       ( /\ ForgotStep(c)
         /\ \A u \in Users : users[u]._id = "" \/ users[u].email # req'[c].email )
       => /\ req'[c].pc = "done"
          /\ req'[c].nextErr = AppError(Some(404)) /\ req'[c].status = 404
          /\ req'[c].resetToken = 0 /\ nextReset' = nextReset
          /\ req'[c].saves = 0 /\ users' = users
          /\ req'[c].mail = "none" /\ inbox' = inbox]_vars

\* a forgotPassword for an unknown email was answered 404
C8_Witness ==
  \E c \in Reqs :
    /\ req[c].pc = "done" /\ req[c].route = "forgotPassword"
    /\ req[c].email = UnknownEmail /\ req[c].status = 404

\* forgotPassword has ended in slot c after the e-mail failed
MailFailed(c) ==
  req[c].pc = "done" /\ req[c].route = "forgotPassword" /\ req[c].mail = "failed"

\* C9: when the reset e-mail fails, the error handed to the error layer has
\* status code 500.
C9_Original ==
  \A c \in Reqs : MailFailed(c) => req[c].nextErr.statusCode = Some(500)

\* C10: when the reset e-mail fails and no other request is in flight, the
\* handler ends with passwordResetToken and passwordResetExpires of the user
\* cleared in the store, and resetPassword gets past its lookup only with a
\* token that was e-mailed, so never with the token of a failed e-mail.
C10_RollbackOnMailFailure ==
  /\ \A c \in Reqs :
       MailFailed(c)
       => /\ req[c].saves = 2
          /\ findById(req[c].user._id).passwordResetToken = Undefined
          /\ findById(req[c].user._id).passwordResetExpires = Undefined
          /\ req[c].resetToken \notin inbox
  /\ \A c \in Reqs :
       (req[c].route = "resetPassword" /\ (req[c].pc = "reset_save" \/ req[c].status = 200))
       => req[c].paramToken \in inbox

\* forgotPassword ended after a failed e-mail, for a user still in the store
C10_Witness ==
  \E c \in Reqs :
    /\ MailFailed(c)
    /\ findById(req[c].user._id) # NoDoc
    /\ req[c].resetToken # 0

-----------------------------------------------------------------------------
(* Properties of the reset token *)

\* a step in which resetPassword saves and answers 200 in slot c
ResetSucceeds(c) == req[c].pc = "reset_save" /\ req'[c].status = 200

\* C11: a reset token is single-use.  The save of a successful resetPassword
\* writes the new password and clears passwordResetToken and
\* passwordResetExpires together, and every resetPassword that starts later
\* with the same token is answered 400 and changes nothing; a forgotPassword
\* in between draws a fresh token and does not bring the spent one back.
C11_ResetTokenSingleUse ==
  [][\A c \in Reqs :
       /\ ResetSucceeds(c) =>
            /\ req'[c].saves = 1
            /\ users'[req[c].user._id].password = Bcrypt(req'[c].password)
            /\ users'[req[c].user._id].passwordResetToken = Undefined
            /\ users'[req[c].user._id].passwordResetExpires = Undefined
            /\ NoLiveToken(req[c].paramToken)'
       /\ (ResetStep(c) /\ req'[c].paramToken \in spent) =>
            /\ req'[c].pc = "done"
            /\ req'[c].nextErr = AppError(Some(400)) /\ req'[c].status = 400
            /\ NoSession(req'[c]) /\ jar' = jar
            /\ users' = users]_vars

\* a spent token was presented again, after a new forgotPassword, and answered 400
C11_Witness ==
  \E c \in Reqs :
    /\ req[c].pc = "done" /\ req[c].route = "resetPassword"
    /\ req[c].paramToken \in spent /\ req[c].status = 400
    /\ nextReset > req[c].paramToken + 1

-----------------------------------------------------------------------------
(* Properties of isLoggedIn and logout *)

\* a step in which isLoggedIn runs in slot c
IsLoggedInStep(c) == req[c].pc = "idle" /\ req'[c].route = "isLoggedIn"

\* the cookie of q verifies, its user is in the store and has not changed the
\* password since the token was issued
CookieResolves(q) ==
  /\ q.cookie # NoToken
  /\ JwtVerify(q.cookie, now) = "ok"
  /\ findById(q.cookie.id) # NoDoc
  /\ ~changedPasswordAfter(findById(q.cookie.id), q.cookie.iat)

\* C12: whatever the cookie and whether or not the lookup throws, isLoggedIn
\* calls next once without an error, writes no response and sets no cookie,
\* and changes nothing; res.locals.user is set only when the cookie token
\* verifies, its user exists and the password was not changed since, and it
\* is set then unless the lookup threw.
C12_IsLoggedInSilent ==
  [][\A c \in Reqs : IsLoggedInStep(c) =>
       /\ req'[c].pc = "done"
       /\ req'[c].nextCalls = 1 /\ req'[c].nextErr = NoError
       /\ req'[c].passed = {"isLoggedIn"} /\ req'[c].reached
       /\ req'[c].status = 0 /\ NoSession(req'[c]) /\ req'[c].bodyUser = NoDoc
       /\ users' = users /\ jar' = jar
       /\ req'[c].reqUser = NoDoc
       /\ req'[c].localsUser # NoDoc =>
            /\ CookieResolves(req'[c])
            /\ req'[c].localsUser = Unselect(findById(req'[c].cookie.id))
       /\ (CookieResolves(req'[c]) /\ ~req'[c].caught) => req'[c].localsUser # NoDoc]_vars

\* a cookie token issued before a change of the password went through
\* isLoggedIn without a user and without an error
C12_Witness ==
  \E c \in Reqs :
    /\ req[c].pc = "done" /\ req[c].route = "isLoggedIn"
    /\ req[c].cookie.kind = "jwt" /\ JwtVerify(req[c].cookie, now) = "ok"
    /\ findById(req[c].cookie.id) # NoDoc
    /\ changedPasswordAfter(findById(req[c].cookie.id), req[c].cookie.iat)
    /\ req[c].localsUser = NoDoc /\ req[c].reached /\ req[c].nextErr = NoError

\* a step in which logout runs in slot c
LogoutStep(c) == req[c].pc = "idle" /\ req'[c].route = "logout"

\* what protect makes of a request that presents the token t in its
\* Authorization header, as things stand
ProtectVerdict(t) ==
  LET q == ProtectRun([IdleReq EXCEPT !.authorization = [scheme |-> "Bearer", token |-> t],
                                      !.token = t], "protected", {})
  IN <<q.passed, q.nextErr, q.status, q.reqUser>>

-----------------------------------------------------------------------------
(* Properties of createSendToken *)

\* the handlers that end in createSendToken
TokenRoutes == {"signup", "login", "resetPassword", "updatePassword"}

\* the request in slot c was answered by createSendToken
SentToken(c) ==
  /\ req[c].pc = "done" /\ req[c].route \in TokenRoutes
  /\ req[c].nextErr = NoError

\* C14: every response of createSendToken sets the cookie jwt to the token of
\* the body, a signed token, with httpOnly, and with secure exactly in
\* production; a request that has not ended, or that ended with an error, has
\* set no cookie, and no cookie carries a signed token otherwise.
C14_SessionCookie ==
  \A c \in Reqs :
    /\ SentToken(c) =>
         /\ req[c].status \in {200, 201}
         /\ req[c].setCookie.name = "jwt"
         /\ req[c].bodyToken.kind = "jwt"
         /\ req[c].setCookie.value = req[c].bodyToken
         /\ req[c].setCookie.httpOnly
         /\ req[c].setCookie.secure <=> nodeEnv = "production"
         /\ jar = req[c].bodyToken
    /\ (req[c].pc # "done" \/ req[c].nextErr # NoError) => NoSession(req[c])
    /\ req[c].setCookie.value.kind = "jwt" => SentToken(c)

\* in production a signup was answered 201 with a secure cookie
C14_Witness ==
  \E c \in Reqs :
    /\ SentToken(c) /\ req[c].route = "signup" /\ req[c].status = 201
    /\ nodeEnv = "production" /\ req[c].setCookie.secure

\* C15: a response body that carries a user carries it without its password,
\* and every response of createSendToken carries the user it was called with.
C15_NoPasswordInBody ==
  \A c \in Reqs :
    /\ req[c].bodyUser # NoDoc =>
         /\ SentToken(c)
         /\ req[c].bodyUser.password = Undefined
    /\ SentToken(c) => req[c].bodyUser = Unselect(req[c].user)

\* login answered with the user it had loaded with the password selected
C15_Witness ==
  \E c \in Reqs :
    /\ SentToken(c) /\ req[c].route = "login"
    /\ req[c].user.password = Bcrypt(req[c].password)
    /\ req[c].bodyUser._id = req[c].user._id
    /\ req[c].bodyUser.password = Undefined

-----------------------------------------------------------------------------
(* Properties of concurrent requests *)

\* C16: of the resetPassword requests that carry the same reset token, at most
\* one changes the password and receives a session token: no request succeeds
\* with a token a password was reset with before.
C16_Original ==
  [][\A c \in Reqs : ResetSucceeds(c) => req[c].paramToken \notin spent]_vars

\* a step in which the catch block of forgotPassword saves in slot c
RollbackStep(c) == req[c].pc = "forgot_rollback" /\ req'[c].pc = "done"

\* C17: the rollback of a forgotPassword whose e-mail failed clears only the
\* token of that request: a token another request e-mailed, stored and live
\* before the rollback, is stored and live after it.
C17_Original ==
  [][\A c \in Reqs : RollbackStep(c) =>
       \A t \in inbox : (t # req[c].resetToken /\ ~NoLiveToken(t)) => ~NoLiveToken(t)']_vars

-----------------------------------------------------------------------------
(* Precedence of the Authorization header in protect *)

\* C18: protect takes its token from an Authorization header that starts with
\* Bearer and from the cookie only when there is no such header; a request
\* whose Bearer header has no token, or one that does not verify, is rejected
\* with no user attached, whatever its cookie.
C18_BearerPrecedence ==
  \A c \in Reqs :
    ProtectEnded(c) =>
      /\ req[c].authorization.scheme = "Bearer" => req[c].token = req[c].authorization.token
      /\ req[c].authorization.scheme # "Bearer" => req[c].token = req[c].cookie
      /\ ( /\ req[c].authorization.scheme = "Bearer"
           /\ \/ req[c].authorization.token = NoToken
              \/ JwtVerify(req[c].authorization.token, now) # "ok" )
         => /\ req[c].nextErr # NoError /\ req[c].nextCalls = 1
            /\ req[c].passed = {} /\ ~req[c].reached
            /\ req[c].reqUser = NoDoc /\ req[c].localsUser = NoDoc

\* a request with a Bearer header without a token was rejected although its
\* cookie is a token protect accepts
C18_Witness ==
  \E c \in Reqs :
    /\ ProtectEnded(c)
    /\ req[c].authorization = [scheme |-> "Bearer", token |-> NoToken]
    /\ CookieResolves(req[c])
    /\ req[c].nextErr = AppError(Some(401)) /\ req[c].passed = {}

-----------------------------------------------------------------------------
(* Properties of signup *)

\* a step in which signup, its user created, sends the welcome e-mail in slot c
SignupSendStep(c) == req[c].pc = "signup_send" /\ req'[c].pc = "done"

\* the document signup created in slot c is in the store as it was created
CreatedRemains(c) ==
  /\ findById(req[c].user._id) = req[c].user
  /\ EmailTaken(req[c].email)

\* C19: signup creates the user, then sends the welcome e-mail, then issues
\* the session.  When the e-mail fails the error goes to next, no token and no
\* cookie are issued, and the created document stays in the store, so its
\* email is taken for the next signup; a signup that answers with a session
\* token has created its user and sent the e-mail before.
C19_SignupNotAtomic ==
  [][\A c \in Reqs : SignupSendStep(c) =>
       /\ users' = users
       /\ CreatedRemains(c)'
       /\ req'[c].saves = 1
       /\ IF req'[c].mail = "failed"
          THEN /\ req'[c].nextErr = Thrown("Error") /\ req'[c].nextCalls = 1
               /\ NoSession(req'[c]) /\ req'[c].bodyUser = NoDoc
               /\ jar' = jar
          ELSE /\ req'[c].mail = "sent"
               /\ req'[c].nextErr = NoError /\ req'[c].status = 201
               /\ req'[c].bodyToken = JwtSign(req[c].user._id, now)
               /\ jar' = req'[c].bodyToken]_vars

\* after a signup whose e-mail failed, and before any session was issued, a
\* second signup with the same email met the user the first one had created
C19_Witness ==
  \E c \in Reqs :
    /\ req[c].pc = "done" /\ req[c].route = "signup"
    /\ req[c].saves = 0 /\ req[c].password = req[c].passwordConfirm
    /\ EmailTaken(req[c].email)
    /\ jar = NoToken /\ saved = NoToken

====
